---------------------------- MODULE Spec2Model ----------------------------
(***************************************************************************)
(* A model of arxiv_batch_export.py: the interactive main program, the     *)
(* query builder (parse_simple_search_url, parse_advanced_search_url),     *)
(* the record extractor (parse_arxiv_xml, extract_paper_data), the three   *)
(* renderers and run_batch_export.                                         *)
(*                                                                         *)
(* Text is modelled as a sequence of one-character strings, so that        *)
(* decoding, stripping, upper-casing, joining and pattern matching are     *)
(* computed character by character as the Python code computes them.       *)
(*                                                                         *)
(* The program is one sequential process.  Its position is pc.  Three      *)
(* specifications cover three consecutive segments of it:                  *)
(*   SpecUrl     main from its call of build_api_query to the request of   *)
(*               the result-count probe;                                   *)
(*   SpecPrompt  main from the probe to the call of run_batch_export;      *)
(*   SpecExport  run_batch_export, with parse_arxiv_xml inside it.         *)
(***************************************************************************)
EXTENDS Integers, Sequences, FiniteSets, TLC

VARIABLES
    pc,                   \* position of the process
    search_type,          \* main: the search type chosen (0: none yet)
    url,                  \* the query component of arxiv_url: a sequence of name=value fields
    query_params,         \* parse_advanced_search_url: parse_qs of the URL's query
    i,                    \* parse_advanced_search_url: the loop index
    complex_query_parts,  \* parse_advanced_search_url: the parts appended so far
    api_query,            \* the query string built (the empty text until built)
    error,                \* the exception raised by the step just taken ("none" if none)
    requests,             \* number of HTTP GET requests issued so far
    total_results,        \* main: the result of get_total_results
    output_format,        \* the format chosen (0: none yet)
    max_results,          \* the count entered at the prompt / handed to run_batch_export
    response,             \* run_batch_export: the response document
    k,                    \* parse_arxiv_xml: number of entries processed
    formatted_entries,    \* parse_arxiv_xml: the rendered blocks
    records,              \* the records extract_paper_data returned, in order
    output_content,       \* run_batch_export: the document to write
    writes,               \* number of times the output file was written
    message,              \* the text of the exception raised by parse_arxiv_xml's error check
    log                   \* the steps of run_batch_export taken so far, in order

vars == <<pc, search_type, url, query_params, i, complex_query_parts, api_query, error, requests,
          total_results, output_format, max_results, response, k, formatted_entries,
          records, output_content, writes, message, log>>

urlVars == <<search_type, url, query_params, i, complex_query_parts, api_query>>
promptVars == <<total_results, output_format, max_results>>
exportVars == <<response, k, formatted_entries, records, output_content, writes, message, log>>

\* no response received yet
NoResponse == [received |-> FALSE, wellformed |-> FALSE, entries |-> <<>>]

(***************************************************************************)
(* Bounds of the model.                                                    *)
(***************************************************************************)
\* longest raw (still encoded) value of the simple-mode query parameter
MaxRawLen == 5
\* advanced-mode URLs carry parameters for the indices 0 .. MaxTerms-1
MaxTerms == 3

(***************************************************************************)
(* Text helpers: Python's str methods, character by character.             *)
(***************************************************************************)
LowerLetters ==
    <<"a","b","c","d","e","f","g","h","i","j","k","l","m",
      "n","o","p","q","r","s","t","u","v","w","x","y","z">>

UpperLetters ==
    <<"A","B","C","D","E","F","G","H","I","J","K","L","M",
      "N","O","P","Q","R","S","T","U","V","W","X","Y","Z">>

Digits == <<"0","1","2","3","4","5","6","7","8","9">>

Range(s) == { s[j] : j \in DOMAIN s }

\* [F(x) for x in s], built element by element
RECURSIVE MapSeq(_, _)
MapSeq(F(_), s) ==
    IF s = <<>> THEN <<>> ELSE <<F(Head(s))>> \o MapSeq(F, Tail(s))

IsDigit(c) == c \in Range(Digits)

\* the value of a decimal digit
DigitVal(c) == (CHOOSE j \in DOMAIN Digits : Digits[j] = c) - 1

\* str(n) for n >= 0
RECURSIVE Str(_)
Str(n) == IF n < 10 THEN <<Digits[n + 1]>> ELSE Str(n \div 10) \o <<Digits[(n % 10) + 1]>>

\* the number a run of decimal digits denotes
RECURSIVE DigitsValue(_)
DigitsValue(ds) ==
    IF ds = <<>> THEN 0
    ELSE 10 * DigitsValue(SubSeq(ds, 1, Len(ds) - 1)) + DigitVal(ds[Len(ds)])

\* str.upper on one character
UpperChar(c) ==
    IF c \in Range(LowerLetters)
    THEN UpperLetters[CHOOSE j \in DOMAIN LowerLetters : LowerLetters[j] = c]
    ELSE c

\* str.upper
StrUpper(s) == MapSeq(UpperChar, s)

\* the characters str.strip and str.split treat as whitespace
Whitespace == {" ", "\t", "\n", "\r"}

RECURSIVE LStrip(_)
LStrip(s) ==
    IF s # <<>> /\ Head(s) \in Whitespace THEN LStrip(Tail(s)) ELSE s

RECURSIVE RStrip(_)
RStrip(s) ==
    IF s # <<>> /\ s[Len(s)] \in Whitespace
    THEN RStrip(SubSeq(s, 1, Len(s) - 1))
    ELSE s

\* str.strip
Strip(s) == RStrip(LStrip(s))

\* str.replace(old, new) for a one-character old
ReplaceChar(s, old, new) == MapSeq(LAMBDA c : IF c = old THEN new ELSE c, s)

\* sep.join(list) for a one-character sep
RECURSIVE Join(_, _)
Join(list, sep) ==
    IF list = <<>> THEN <<>>
    ELSE IF Len(list) = 1 THEN list[1]
    ELSE list[1] \o <<sep>> \o Join(Tail(list), sep)

\* int(text): surrounding whitespace and a sign are accepted; anything else
\* than decimal digits raises ValueError (ok is FALSE)
ParseInt(text) ==
    LET t == Strip(text)
        signed == t # <<>> /\ t[1] \in {"-", "+"}
        ds == IF signed THEN Tail(t) ELSE t
    IN  IF ds = <<>> \/ \E j \in DOMAIN ds : ~IsDigit(ds[j])
        THEN [ok |-> FALSE, value |-> 0]
        ELSE [ok |-> TRUE,
              value |-> IF signed /\ t[1] = "-" THEN 0 - DigitsValue(ds) ELSE DigitsValue(ds)]

\* sub in s
Contains(sub, s) ==
    \E p \in 1..(Len(s) - Len(sub) + 1) : SubSeq(s, p, p + Len(sub) - 1) = sub

(***************************************************************************)
(* urllib.parse: unquote and parse_qs.                                     *)
(***************************************************************************)
HexDigits == Range(Digits) \cup {"a","b","c","d","e","f","A","B","C","D","E","F"}

HexVal(c) ==
    IF IsDigit(c) THEN DigitVal(c)
    ELSE 9 + (CHOOSE j \in 1..6 : UpperLetters[j] = UpperChar(c))

\* the ASCII characters an escape of the modelled inputs can name
AsciiChar == (34 :> "\"") @@ (37 :> "%") @@ (43 :> "+") @@ (82 :> "R") @@ (85 :> "U")

\* urllib.parse.unquote: every %XY with two hex digits becomes the character
\* it names; a % not followed by two hex digits stays as it is
RECURSIVE Unquote(_)
Unquote(s) ==
    IF s = <<>> THEN <<>>
    ELSE IF s[1] = "%" /\ Len(s) >= 3 /\ s[2] \in HexDigits /\ s[3] \in HexDigits
    THEN <<AsciiChar[16 * HexVal(s[2]) + HexVal(s[3])]>> \o Unquote(SubSeq(s, 4, Len(s)))
    ELSE <<s[1]>> \o Unquote(Tail(s))

\* parse_qs decodes a value as unquote(value.replace('+', ' '))
FormDecode(raw) == Unquote(ReplaceChar(raw, "+", " "))

\* parse_qs with keep_blank_values as given: the name=value fields in order,
\* the values decoded
ParseQsKeeping(fields, keep_blank_values) ==
    MapSeq(LAMBDA f : [name |-> f.name, value |-> FormDecode(f.value)],
           SelectSeq(fields, LAMBDA f : keep_blank_values \/ f.value # <<>>))

\* parse_qs(query) with keep_blank_values=True: a mutant of ParseQs
ParseQsKeepBlank(fields) == ParseQsKeeping(fields, TRUE)

\* parse_qs(query): fields with a blank value are dropped
ParseQs(fields) == ParseQsKeeping(fields, FALSE)

\* query_params.get(key): the list of the values of key, empty when the key
\* is not in query_params (parse_qs never maps a key to an empty list)
Get(params, key) ==
    MapSeq(LAMBDA f : f.value, SelectSeq(params, LAMBDA f : f.name = key))

(***************************************************************************)
(* Configuration.                                                          *)
(***************************************************************************)
T_title == <<"t","i","t","l","e">>
T_author == <<"a","u","t","h","o","r">>
T_abstract == <<"a","b","s","t","r","a","c","t">>
T_comments == <<"c","o","m","m","e","n","t","s">>
T_journal_ref == <<"j","o","u","r","n","a","l","_","r","e","f">>
T_acm_class == <<"a","c","m","_","c","l","a","s","s">>
T_msc_class == <<"m","s","c","_","c","l","a","s","s">>
T_report_num == <<"r","e","p","o","r","t","_","n","u","m">>
T_paper_id == <<"p","a","p","e","r","_","i","d">>
T_doi == <<"d","o","i">>
T_orcid == <<"o","r","c","i","d">>
T_all == <<"a","l","l">>

API_FIELD_MAP ==
    (T_title :> <<"t","i">>) @@ (T_author :> <<"a","u">>) @@
    (T_abstract :> <<"a","b","s">>) @@ (T_comments :> <<"c","o","m","m">>) @@
    (T_journal_ref :> <<"j","r">>) @@ (T_acm_class :> <<"a","c","m">>) @@
    (T_msc_class :> <<"m","s","c">>) @@ (T_report_num :> <<"r","p","t">>) @@
    (T_paper_id :> <<"i","d">>) @@ (T_doi :> T_doi) @@ (T_orcid :> T_orcid) @@
    (T_all :> T_all)

\* API_FIELD_MAP.get(field, 'all')
ApiField(field) == IF field \in DOMAIN API_FIELD_MAP THEN API_FIELD_MAP[field] ELSE T_all

(***************************************************************************)
(* parse_simple_search_url                                                 *)
(***************************************************************************)
K_query == <<"query">>
K_searchtype == <<"searchtype">>

\* the function's outcome for a URL parsed to query_params
SimpleOutcome(params) ==
    LET query_list == Get(params, K_query)
        searchtype_list == Get(params, K_searchtype)
    IN  IF query_list = <<>> \/ searchtype_list = <<>>
        THEN [error |-> "ValueError", api_query |-> <<>>]
        ELSE LET raw_query == Unquote(query_list[1])
                 search_field == searchtype_list[1]
             IN  [error |-> "none",
                  api_query |-> ApiField(search_field) \o <<":", "(">> \o raw_query \o <<")">>]

parse_simple_search_url(u) == SimpleOutcome(ParseQs(u))

(***************************************************************************)
(* parse_advanced_search_url: one step per loop iteration                  *)
(***************************************************************************)
TermKey(n) == <<"terms", n, "term">>
FieldKey(n) == <<"terms", n, "field">>
OperatorKey(n) == <<"terms", n, "operator">>

\* '(<api_field>:(<term_clean>))' for the term and field of one index
QueryPart(term_value, field_value) ==
    LET term == Strip(Unquote(term_value))
        field == Strip(field_value)
        term_clean == ReplaceChar(term, "+", " ")
    IN  <<"(">> \o ApiField(field) \o <<":", "(">> \o term_clean \o <<")", ")">>

\* the texts of the parts, in order
PartTexts(parts) == MapSeq(LAMBDA q : q.text, parts)


\* the parts one iteration appends for index n: nothing when the term or the
\* field is missing, else the operator, if any, and then the clause
IterationParts(params, n) ==
    LET term_value_list == Get(params, TermKey(n))
        field_value_list == Get(params, FieldKey(n))
        operator_list == Get(params, OperatorKey(n))
    IN  IF term_value_list = <<>> \/ field_value_list = <<>>
        THEN <<>>
        ELSE (IF n > 0 /\ operator_list # <<>>
              THEN <<[kind |-> "operator", index |-> n, text |-> StrUpper(operator_list[1])]>>
              ELSE <<>>)
             \o <<[kind |-> "clause", index |-> n,
                   text |-> QueryPart(term_value_list[1], field_value_list[1])]>>

(***************************************************************************)
(* The URLs pasted into main.                                              *)
(***************************************************************************)
\* the fields name=v1&name=v2... for the values of one name
FieldsOf(name, values) == MapSeq(LAMBDA v : [name |-> name, value |-> v], values)

\* the characters of the raw query values enumerated: an escape sign, two hex
\* digits (%25 is the percent sign itself) and the form encoding of a space
Alphabet == {"%", "2", "5", "+"}

RawStrings == UNION { [1..n -> Alphabet] : n \in 0..MaxRawLen }

\* query: absent, given once with any raw value, or given blank and then again
QueryLists == {<<>>} \cup { <<v>> : v \in RawStrings } \cup { << <<>>, <<"2">> >> }

\* searchtype: absent, blank, a mapped name, an unmapped name, blank and then a name
TypeLists ==
    {<<>>, << <<>> >>, <<T_title>>, <<T_all>>, <<T_abstract>>, << <<"x">> >>,
     << <<>>, T_author >>}

SimpleUrls ==
    { FieldsOf(K_query, q) \o FieldsOf(K_searchtype, s) : q \in QueryLists, s \in TypeLists }

\* terms-n-term: absent, blank, or "+2%2B" (decoded by parse_qs to " 2+")
TermOptions == {<<>>, << <<>> >>, << <<"+","2","%","2","B">> >>}

\* terms-n-field: absent or "+title+" (decoded by parse_qs to " title ")
FieldOptions == {<<>>, << <<"+","t","i","t","l","e","+">> >>}

\* terms-n-operator: absent or "or"
OperatorOptions == {<<>>, << <<"o","r">> >>}

IndexFields(n) ==
    { FieldsOf(TermKey(n), t) \o FieldsOf(FieldKey(n), f) \o FieldsOf(OperatorKey(n), o) :
        t \in TermOptions, f \in FieldOptions, o \in OperatorOptions }

RECURSIVE AdvancedUrlsUpTo(_)
AdvancedUrlsUpTo(n) ==
    IF n = 0 THEN {<<>>}
    ELSE { u \o t : u \in AdvancedUrlsUpTo(n - 1), t \in IndexFields(n - 1) }

AdvancedUrls == AdvancedUrlsUpTo(MaxTerms)

(***************************************************************************)
(* main, first segment: build_api_query and the probe request.             *)
(***************************************************************************)
\* main at its call of build_api_query: the search-type prompt has accepted
\* 1 or 2 (it repeats on any other entry) and the URL has been pasted
InitUrl ==
    /\ pc = "build"
    /\ search_type \in {1, 2}
    /\ url \in (IF search_type = 1 THEN SimpleUrls ELSE AdvancedUrls)
    /\ query_params = <<>>
    /\ i = 0
    /\ complex_query_parts = <<>>
    /\ api_query = <<>>
    /\ error = "none"
    /\ requests = 0
    /\ total_results = 0
    /\ output_format = 0
    /\ max_results = 0
    /\ response = NoResponse
    /\ k = 0
    /\ formatted_entries = <<>>
    /\ records = <<>>
    /\ output_content = <<>>
    /\ writes = 0
    /\ message = <<>>
    /\ log = <<>>

\* build_api_query with search type 1: parse_simple_search_url, whole
BuildSimple ==
    /\ pc = "build"
    /\ search_type = 1
    /\ LET r == parse_simple_search_url(url)
       IN  /\ error' = r.error
           /\ api_query' = r.api_query
           /\ pc' = IF r.error = "none" THEN "built" ELSE "raised"
    /\ UNCHANGED <<search_type, url, query_params, i, complex_query_parts, requests>>
    /\ UNCHANGED promptVars
    /\ UNCHANGED exportVars

\* build_api_query with search type 2: parse_advanced_search_url up to its loop
AdvancedStart ==
    /\ pc = "build"
    /\ search_type = 2
    /\ query_params' = ParseQs(url)
    /\ i' = 0
    /\ complex_query_parts' = <<>>
    /\ pc' = "adv_loop"
    /\ UNCHANGED <<search_type, url, api_query, error, requests>>
    /\ UNCHANGED promptVars
    /\ UNCHANGED exportVars

\* the loop ends as a mutant's skip would end it
AdvancedSkipBreaks ==
    /\ pc = "adv_loop"
    /\ Get(query_params, TermKey(i)) # <<>>
    /\ Get(query_params, FieldKey(i)) = <<>>
    /\ pc' = "adv_join"
    /\ UNCHANGED <<search_type, url, query_params, i, complex_query_parts, api_query, error, requests>>
    /\ UNCHANGED promptVars
    /\ UNCHANGED exportVars

\* an iteration whose term is present and whose field is not: i += 1; continue
AdvancedSkip ==
    /\ pc = "adv_loop"
    /\ Get(query_params, TermKey(i)) # <<>>
    /\ Get(query_params, FieldKey(i)) = <<>>
    /\ i' = i + 1
    /\ UNCHANGED <<pc, search_type, url, query_params, complex_query_parts, api_query, error, requests>>
    /\ UNCHANGED promptVars
    /\ UNCHANGED exportVars

\* an iteration with term and field: the operator, if any, and the clause are appended
AdvancedClause ==
    /\ pc = "adv_loop"
    /\ Get(query_params, TermKey(i)) # <<>>
    /\ Get(query_params, FieldKey(i)) # <<>>
    /\ complex_query_parts' = complex_query_parts \o IterationParts(query_params, i)
    /\ i' = i + 1
    /\ UNCHANGED <<pc, search_type, url, query_params, api_query, error, requests>>
    /\ UNCHANGED promptVars
    /\ UNCHANGED exportVars

\* the iteration that finds terms-i-term not in query_params: break
AdvancedBreak ==
    /\ pc = "adv_loop"
    /\ Get(query_params, TermKey(i)) = <<>>
    /\ pc' = "adv_join"
    /\ UNCHANGED <<search_type, url, query_params, i, complex_query_parts, api_query, error, requests>>
    /\ UNCHANGED promptVars
    /\ UNCHANGED exportVars

\* after the loop: the parts are joined; an empty result raises ValueError
AdvancedJoin ==
    /\ pc = "adv_join"
    /\ LET final_api_query == Join(PartTexts(complex_query_parts), " ")
       IN  IF final_api_query = <<>>
           THEN /\ error' = "ValueError"
                /\ pc' = "raised"
                /\ UNCHANGED api_query
           ELSE /\ error' = "none"
                /\ pc' = "built"
                /\ api_query' = final_api_query
    /\ UNCHANGED <<search_type, url, query_params, i, complex_query_parts, requests>>
    /\ UNCHANGED promptVars
    /\ UNCHANGED exportVars

\* main: build_api_query raised ValueError: the error is printed, sys.exit(1)
MainUrlError ==
    /\ pc = "raised"
    /\ pc' = "exit"
    /\ UNCHANGED <<search_type, url, query_params, i, complex_query_parts, api_query, error, requests>>
    /\ UNCHANGED promptVars
    /\ UNCHANGED exportVars

\* main: build_api_query returned; get_total_results sends its request
ProbeSend ==
    /\ pc = "built"
    /\ requests' = requests + 1
    /\ pc' = "probe_wait"
    /\ UNCHANGED <<search_type, url, query_params, i, complex_query_parts, api_query, error>>
    /\ UNCHANGED promptVars
    /\ UNCHANGED exportVars

NextUrl ==
    \/ BuildSimple
    \/ AdvancedStart
    \/ AdvancedSkip
    \/ AdvancedClause
    \/ AdvancedBreak
    \/ AdvancedJoin
    \/ MainUrlError
    \/ ProbeSend

SpecUrl == InitUrl /\ [][NextUrl]_vars

\* one iteration of the scan loop of parse_advanced_search_url
AdvancedScan == AdvancedSkip \/ AdvancedClause \/ AdvancedBreak

\* the process is sequential and never suspended inside the scan loop: while
\* an iteration can run, one does
FairSpecUrl == SpecUrl /\ WF_vars(AdvancedScan)

(***************************************************************************)
(* What the URL itself says, read off its fields without parse_qs.         *)
(***************************************************************************)
\* the non-empty raw values the URL gives for a name, in URL order
NonBlankValues(u, name) ==
    MapSeq(LAMBDA f : f.value, SelectSeq(u, LAMBDA f : f.name = name /\ f.value # <<>>))

\* the parameter is present with a non-empty value
HasValue(u, name) == NonBlankValues(u, name) # <<>>

\* the parameter's text decoded once
DecodedOnce(u, name) == FormDecode(NonBlankValues(u, name)[1])

\* the first index whose terms-n-term is missing
FirstMissing(u) == CHOOSE n \in 0..MaxTerms :
    /\ ~HasValue(u, TermKey(n))
    /\ \A m \in 0..(n - 1) : HasValue(u, TermKey(m))

\* the indices that yield a clause: term and field both there, before the first missing term
ValidIndices(u) == { n \in 0..(FirstMissing(u) - 1) : HasValue(u, FieldKey(n)) }

\* build_api_query has finished, with a result or an exception
BuildDone == pc \in {"built", "raised", "exit", "probe_wait"}

(***************************************************************************)
(* Claims about the query builder.                                         *)
(***************************************************************************)
\* C1: a simple-mode URL with non-empty query and searchtype, the searchtype a
\* key of the field mapping, yields exactly "<code>:(<query decoded once>)":
\* a percent escape that appears only after the one decoding stays in the result.
C1_SimpleQueryDecodedOnce ==
    (/\ search_type = 1
     /\ BuildDone
     /\ HasValue(url, K_query)
     /\ HasValue(url, K_searchtype)
     /\ DecodedOnce(url, K_searchtype) \in DOMAIN API_FIELD_MAP)
    => /\ error = "none"
       /\ api_query = API_FIELD_MAP[DecodedOnce(url, K_searchtype)]
                        \o <<":", "(">> \o DecodedOnce(url, K_query) \o <<")">>

\* C2: a simple-mode URL whose query or searchtype is absent or empty makes
\* build_api_query raise ValueError and return no query, and main then exits
\* with no network request issued.
C2_SimpleMissingParameterFails ==
    (/\ search_type = 1
     /\ pc # "build"
     /\ (~HasValue(url, K_query) \/ ~HasValue(url, K_searchtype)))
    => /\ error = "ValueError"
       /\ api_query = <<>>
       /\ pc \in {"raised", "exit"}
       /\ requests = 0

\* C2's case: the run has ended on a URL that names query with an empty value
C2_Witness ==
    /\ search_type = 1
    /\ pc = "exit"
    /\ \E j \in DOMAIN url : url[j].name = K_query /\ url[j].value = <<>>
    /\ ~HasValue(url, K_query)
    /\ HasValue(url, K_searchtype)
    /\ error = "ValueError"

\* C3: the scan visits 0, 1, 2, ... and stops at the first missing term; the
\* result is the single-space join of the clauses of the valid indices in
\* index order with operators between them: every operator is the uppercased
\* terms-i-operator of an index i > 0, stands right after an earlier clause and
\* right before clause i, so the result never begins with an operator.
C3_OperatorsJoinClauses ==
    search_type = 2 =>
      /\ pc = "adv_loop" => i <= FirstMissing(url)
      /\ BuildDone =>
           LET parts == complex_query_parts
               clauses == SelectSeq(parts, LAMBDA q : q.kind = "clause")
           IN  /\ i = FirstMissing(url)
               /\ { q.index : q \in Range(clauses) } = ValidIndices(url)
               /\ \A a, b \in DOMAIN clauses : a < b => clauses[a].index < clauses[b].index
               /\ error = "none" => api_query = Join(PartTexts(parts), " ")
               /\ \A p \in DOMAIN parts :
                     parts[p].kind = "operator" =>
                       /\ parts[p].index > 0
                       /\ parts[p].text = StrUpper(DecodedOnce(url, OperatorKey(parts[p].index)))
                       /\ p > 1
                       /\ parts[p - 1].kind = "clause"
                       /\ parts[p - 1].index < parts[p].index
                       /\ p < Len(parts)
                       /\ parts[p + 1].kind = "clause"
                       /\ parts[p + 1].index = parts[p].index

\* what C9 says of every state
C9_State ==
    search_type = 2 =>
      /\ pc = "adv_loop" => i <= FirstMissing(url)
      /\ BuildDone =>
           /\ i = FirstMissing(url)
           /\ \A n \in 0..(FirstMissing(url) - 1) :
                 LET of_n == SelectSeq(complex_query_parts, LAMBDA q : q.index = n)
                 IN  IF HasValue(url, FieldKey(n))
                     THEN \E q \in Range(of_n) : q.kind = "clause"
                     ELSE of_n = <<>>
           /\ error = "ValueError" <=> ValidIndices(url) = {}
           /\ error = "ValueError" <=>
                 ~\E q \in Range(complex_query_parts) : q.kind = "clause"

\* what C9 says of every step of the scan: an iteration that stays in the loop
\* moves to the next index and appends nothing for an index without a field
C9_Step ==
    (pc = "adv_loop" /\ pc' = "adv_loop") =>
      /\ i' = i + 1
      /\ ~HasValue(url, FieldKey(i)) => complex_query_parts' = complex_query_parts

\* C9: an index with a term and no field adds no clause and no operator and
\* does not end the scan, which goes on to the first missing term; ValueError
\* is raised exactly when no clause was produced; the scan loop terminates.
C9_SkipContinuesScanTerminates ==
    /\ []C9_State
    /\ [][C9_Step]_vars
    /\ (pc = "adv_loop") ~> (pc = "adv_join")

\* C9's case: index 0 had a term and no field, a later index gave the only clause
C9_Witness ==
    /\ search_type = 2
    /\ pc = "built"
    /\ HasValue(url, TermKey(0))
    /\ ~HasValue(url, FieldKey(0))
    /\ 2 \in ValidIndices(url)
    /\ \E q \in Range(complex_query_parts) : q.kind = "clause" /\ q.index = 2

(***************************************************************************)
(* main, second segment: from the probe's answer to run_batch_export.      *)
(***************************************************************************)
\* the hard cap of the upstream API on max_results
UpstreamCap == 1000

\* totals and counts are enumerated from 0 to MaxCount and around the cap
MaxCount == 3

Min(a, b) == IF a <= b THEN a ELSE b

\* what get_total_results can return: 0 (also on any failure of the probe),
\* 1 (an entry and no total), or the total the response names
Totals == (0..MaxCount) \cup {UpstreamCap - 1, UpstreamCap, UpstreamCap + 1}

\* what the user may type at the format prompt
FormatChoices == {<<"1">>, <<"2">>, <<"3">>, <<"4">>, <<"0">>, <<"x">>, <<>>}

\* what the user may type at the count prompt: numbers, negative numbers,
\* padded numbers and text that is no number
CountNumbers == (0..(MaxCount + 1)) \cup {UpstreamCap - 1, UpstreamCap, UpstreamCap + 1}

CountChoices ==
    { Str(n) : n \in CountNumbers } \cup { <<"-">> \o Str(n) : n \in 0..MaxCount }
    \cup { <<" ", "2", " ">>, <<"+", "1">>, <<"x">>, <<"1", ".", "5">>, <<>> }

\* main after build_api_query returned for a simple-mode URL, the probe sent
InitPrompt ==
    /\ pc = "probe_wait"
    /\ search_type = 1
    /\ url \in { FieldsOf(K_query, << <<"2">> >>) \o FieldsOf(K_searchtype, <<t>>) :
                   t \in {T_all, T_title} }
    /\ query_params = <<>>
    /\ i = 0
    /\ complex_query_parts = <<>>
    /\ api_query = parse_simple_search_url(url).api_query
    /\ error = "none"
    /\ requests = 1
    /\ total_results = 0
    /\ output_format = 0
    /\ max_results = 0
    /\ response = NoResponse
    /\ k = 0
    /\ formatted_entries = <<>>
    /\ records = <<>>
    /\ output_content = <<>>
    /\ writes = 0
    /\ message = <<>>
    /\ log = <<>>

\* get_total_results returns; main exits when the total is 0
ProbeReturn ==
    /\ pc = "probe_wait"
    /\ \E n \in Totals :
          /\ total_results' = n
          /\ pc' = IF n = 0 THEN "exit" ELSE "prompt_format"
    /\ UNCHANGED <<output_format, max_results, error, requests>>
    /\ UNCHANGED urlVars
    /\ UNCHANGED exportVars

\* the format prompt loop: an entry that is no number, or is not 1, 2 or 3,
\* is refused and the prompt repeats
ChooseFormat ==
    /\ pc = "prompt_format"
    /\ \E choice \in FormatChoices :
          LET n == ParseInt(choice)
          IN  IF n.ok /\ n.value \in {1, 2, 3}
              THEN /\ output_format' = n.value
                   /\ pc' = "prompt_count"
              ELSE UNCHANGED <<output_format, pc>>
    /\ UNCHANGED <<total_results, max_results, error, requests>>
    /\ UNCHANGED urlVars
    /\ UNCHANGED exportVars

\* the count prompt loop: int(max_input) raising ValueError repeats the
\* prompt; any number leaves the loop through the break that follows the
\* if/elif, a number <= 0 after a message only, a number above the bound
\* replaced by the bound
EnterCount ==
    /\ pc = "prompt_count"
    /\ \E entry \in CountChoices :
          LET n == ParseInt(entry)
              bound == Min(total_results, UpstreamCap)
          IN  IF ~n.ok
              THEN UNCHANGED <<max_results, pc>>
              ELSE /\ max_results' = IF n.value <= 0 THEN n.value
                                     ELSE IF n.value > bound THEN bound
                                     ELSE n.value
                   /\ pc' = "call_export"
    /\ UNCHANGED <<total_results, output_format, error, requests>>
    /\ UNCHANGED urlVars
    /\ UNCHANGED exportVars

\* main calls run_batch_export(api_query, max_results, output_format, output_dir)
CallExport ==
    /\ pc = "call_export"
    /\ pc' = "export_start"
    /\ UNCHANGED <<error, requests>>
    /\ UNCHANGED promptVars
    /\ UNCHANGED urlVars
    /\ UNCHANGED exportVars

NextPrompt ==
    \/ ProbeReturn
    \/ ChooseFormat
    \/ EnterCount
    \/ CallExport

SpecPrompt == InitPrompt /\ [][NextPrompt]_vars

\* C8: whatever is typed at the count prompt, the max_results handed to
\* run_batch_export is a positive integer no greater than
\* min(total_results, 1000).
C8_MaxResultsPositiveAndClamped ==
    pc = "export_start" =>
      /\ max_results > 0
      /\ max_results <= Min(total_results, UpstreamCap)

(***************************************************************************)
(* The response document.  An element is present or not; the text of a     *)
(* present element is None (ElementTree's text of an empty element) or a   *)
(* non-empty text.  None is a value that is no text.                       *)
(***************************************************************************)
None == <<"None">>

\* str(v) as an f-string formats v
Format(v) == IF v = None THEN <<"N", "o", "n", "e">> ELSE v

\* bool(v) for a text or None
Truthy(v) == v # None /\ v # <<>>

NoElement == [present |-> FALSE, text |-> None]

Element(text) == [present |-> TRUE, text |-> text]

\* element.find(xpath, NS) for the children the code looks up
Find(entry, xpath) ==
    CASE xpath = "atom:title" -> entry.title
      [] xpath = "atom:id" -> entry.id
      [] xpath = "atom:summary" -> entry.summary
      [] xpath = "atom:published" -> entry.published
      [] xpath = "arxiv:doi" -> entry.doi

\* re.sub(r'[\\{}$]', '', text)
RemoveMarkup(text) == SelectSeq(text, LAMBDA c : c \notin {"\\", "{", "}", "$"})

\* text.split(): the maximal runs of non-whitespace characters
RECURSIVE SplitWords(_)
SplitWords(s) ==
    LET t == LStrip(s)
        WordEnd[p \in 0..Len(t)] ==
            IF p = Len(t) \/ t[p + 1] \in Whitespace THEN p ELSE WordEnd[p + 1]
    IN  IF t = <<>> THEN <<>>
        ELSE <<SubSeq(t, 1, WordEnd[0])>> \o SplitWords(SubSeq(t, WordEnd[0] + 1, Len(t)))

\* safe_get_element: [raised, value].  A missing element, and for every
\* field but the summary a text of None, raise AttributeError inside the
\* try and give the default ''; the summary's text goes to re.sub before it
\* is tested for None, and re.sub(..., None) raises TypeError, which the
\* except clause does not catch
safe_get_element(element, xpath) ==
    LET found == Find(element, xpath)
    IN  IF ~found.present THEN [raised |-> "none", value |-> <<>>]
        ELSE IF xpath = "atom:summary"
        THEN IF found.text = None
             THEN [raised |-> "TypeError", value |-> <<>>]
             ELSE [raised |-> "none", value |-> Join(SplitWords(RemoveMarkup(found.text)), " ")]
        ELSE IF found.text = None THEN [raised |-> "none", value |-> <<>>]
        ELSE [raised |-> "none", value |-> Strip(found.text)]

(***************************************************************************)
(* The identifier: re.search(r'(\d{4}\.\d{5}v\d+|\d{4}\.\d{5})', text)     *)
(***************************************************************************)
AllDigits(s) == \A j \in DOMAIN s : IsDigit(s[j])

\* \d{4}\.\d{5} matches at p
IdAt(s, p) ==
    /\ p + 9 <= Len(s)
    /\ AllDigits(SubSeq(s, p, p + 3))
    /\ s[p + 4] = "."
    /\ AllDigits(SubSeq(s, p + 5, p + 9))

\* the end of the longest run of digits that starts at p (p - 1 if none does)
DigitsEnd(s, p) ==
    LET End[q \in (p - 1)..Len(s)] ==
            IF q < Len(s) /\ IsDigit(s[q + 1]) THEN End[q + 1] ELSE q
    IN  End[p - 1]

\* the leftmost match, the alternative with a version tried first; <<>> if none
ArxivIdMatch(s) ==
    IF \E p \in 1..Len(s) : IdAt(s, p)
    THEN LET p == CHOOSE q \in 1..Len(s) : IdAt(s, q) /\ \A r \in 1..(q - 1) : ~IdAt(s, r)
             versioned == /\ p + 11 <= Len(s)
                          /\ s[p + 10] = "v"
                          /\ IsDigit(s[p + 11])
         IN  IF versioned THEN SubSeq(s, p, DigitsEnd(s, p + 11)) ELSE SubSeq(s, p, p + 9)
    ELSE <<>>

(***************************************************************************)
(* The timestamp: datetime.strptime(text, '%Y-%m-%dT%H:%M:%SZ') and the    *)
(* strftime renderings.                                                    *)
(***************************************************************************)
\* the first position from `from` on whose character, uppercased, is c (0 if none)
FindChar(s, c, from) ==
    IF \E p \in from..Len(s) : UpperChar(s[p]) = c
    THEN CHOOSE p \in from..Len(s) :
            UpperChar(s[p]) = c /\ \A q \in from..(p - 1) : UpperChar(s[q]) # c
    ELSE 0

\* one or two digits whose value lies in lo..hi (the directive's alternatives)
NumberToken(t, lo, hi) ==
    /\ Len(t) \in {1, 2}
    /\ AllDigits(t)
    /\ DigitsValue(t) \in lo..hi

\* %d also takes a space and one digit from 1 to 9
DayToken(t) ==
    \/ NumberToken(t, 1, 31)
    \/ (Len(t) = 2 /\ t[1] = " " /\ IsDigit(t[2]) /\ DigitVal(t[2]) >= 1)

DayValue(t) == IF t[1] = " " THEN DigitVal(t[2]) ELSE DigitsValue(t)

IsLeap(y) == (y % 4 = 0 /\ y % 100 # 0) \/ y % 400 = 0

DaysInMonth(y, m) ==
    IF m = 2 THEN (IF IsLeap(y) THEN 29 ELSE 28)
    ELSE IF m \in {4, 6, 9, 11} THEN 30
    ELSE 31

\* [ok, year, month, day]: ok is FALSE where strptime raises ValueError.  The
\* literals T and Z match in either case; the whole text must be consumed.
Strptime(s) ==
    LET failed == [ok |-> FALSE, year |-> 0, month |-> 0, day |-> 0]
        d1 == 5
        d2 == FindChar(s, "-", 6)
        tT == FindChar(s, "T", d2 + 1)
        c1 == FindChar(s, ":", tT + 1)
        c2 == FindChar(s, ":", c1 + 1)
        zZ == FindChar(s, "Z", c2 + 1)
    IN  IF Len(s) < 5 \/ ~AllDigits(SubSeq(s, 1, 4)) \/ s[d1] # "-" THEN failed
        ELSE IF d2 = 0 \/ tT = 0 \/ c1 = 0 \/ c2 = 0 \/ zZ = 0 \/ zZ # Len(s) THEN failed
        ELSE LET year == DigitsValue(SubSeq(s, 1, 4))
                 mon == SubSeq(s, d1 + 1, d2 - 1)
                 day == SubSeq(s, d2 + 1, tT - 1)
                 hour == SubSeq(s, tT + 1, c1 - 1)
                 minute == SubSeq(s, c1 + 1, c2 - 1)
                 second == SubSeq(s, c2 + 1, zZ - 1)
             IN  IF ~(/\ NumberToken(mon, 1, 12)
                      /\ DayToken(day)
                      /\ NumberToken(hour, 0, 23)
                      /\ NumberToken(minute, 0, 59)
                      /\ NumberToken(second, 0, 61))
                 THEN failed
                 \* datetime(...) raises ValueError on year 0, a day the month
                 \* does not have and a second above 59
                 ELSE IF \/ year < 1
                         \/ DayValue(day) > DaysInMonth(year, DigitsValue(mon))
                         \/ DigitsValue(second) > 59
                 THEN failed
                 ELSE [ok |-> TRUE, year |-> year, month |-> DigitsValue(mon),
                       day |-> DayValue(day)]

\* %m and %d: two digits
Pad2(n) == IF n < 10 THEN <<"0">> \o Str(n) ELSE Str(n)

\* %B in the C locale
MonthNames ==
    <<<<"J", "a", "n", "u", "a", "r", "y">>, <<"F", "e", "b", "r", "u", "a", "r", "y">>, <<"M", "a", "r", "c", "h">>,
      <<"A", "p", "r", "i", "l">>, <<"M", "a", "y">>, <<"J", "u", "n", "e">>, <<"J", "u", "l", "y">>,
      <<"A", "u", "g", "u", "s", "t">>, <<"S", "e", "p", "t", "e", "m", "b", "e", "r">>, <<"O", "c", "t", "o", "b", "e", "r">>,
      <<"N", "o", "v", "e", "m", "b", "e", "r">>, <<"D", "e", "c", "e", "m", "b", "e", "r">>>>

\* the four date-derived fields with year taken from the text before it is
\* parsed: a mutant of DateFields
DateFieldsYearUnparsed(published_date_str) ==
    LET dt == Strptime(published_date_str)
        year == SubSeq(published_date_str, 1, Min(4, Len(published_date_str)))
    IN  IF published_date_str = <<>> \/ ~dt.ok
        THEN [year |-> year, submission_date |-> <<>>, ris_date |-> <<>>, enw_date_8 |-> <<>>]
        ELSE [year |-> year,
              submission_date |-> Str(dt.year) \o <<"/">> \o Pad2(dt.month) \o <<"/">> \o Pad2(dt.day) \o <<"/">>,
              ris_date |-> Str(dt.year) \o <<"/">> \o Pad2(dt.month) \o <<"/", "0", "1", "/">>,
              enw_date_8 |-> MonthNames[dt.month] \o <<" ">> \o Pad2(dt.day) \o <<",", " ">> \o Str(dt.year)]

\* extract_paper_data's date block: the four fields start empty; when the
\* text is non-empty and parses, all four are set from the parsed date; a
\* ValueError of strptime is passed over
DateFields(published_date_str) ==
    LET dt == Strptime(published_date_str)
    IN  IF published_date_str = <<>> \/ ~dt.ok
        THEN [year |-> <<>>, submission_date |-> <<>>, ris_date |-> <<>>, enw_date_8 |-> <<>>]
        ELSE [year |-> Str(dt.year),
              submission_date |-> Str(dt.year) \o <<"/">> \o Pad2(dt.month) \o <<"/">> \o Pad2(dt.day) \o <<"/">>,
              ris_date |-> Str(dt.year) \o <<"/">> \o Pad2(dt.month) \o <<"/", "0", "1", "/">>,
              enw_date_8 |-> MonthNames[dt.month] \o <<" ">> \o Pad2(dt.day) \o <<",", " ">> \o Str(dt.year)]

(***************************************************************************)
(* extract_paper_data                                                      *)
(***************************************************************************)
\* primary_category_tag.get('{http://arxiv.org/schemas/atom}term'): the
\* attribute's value, None when the tag does not carry the attribute
GetTerm(tag) == IF tag.term = <<>> THEN None ELSE tag.term[1]

\* author.find('atom:name', NS).text.strip() raises AttributeError for an
\* author with no name element or a name with no text
HasName(author) == author.present /\ author.text # None

EmptyData ==
    [title |-> <<>>, summary |-> <<>>, doi |-> <<>>, arxiv_id |-> <<>>, arxiv_url |-> <<>>,
     authors |-> <<>>, year |-> <<>>, submission_date |-> <<>>, ris_date |-> <<>>,
     primary_category |-> <<>>, enw_date_8 |-> <<>>]

\* the category as the code reads it: '' when the tag is absent, else the
\* attribute's value, or None when the tag does not carry the attribute
PrimaryCategory(tag) == IF tag.present THEN GetTerm(tag) ELSE <<>>

\* extract_paper_data: [raised, data].  The lookups run in the order of the
\* code: the summary's TypeError comes before an author's AttributeError.
extract_paper_data(entry) ==
    LET title == safe_get_element(entry, "atom:title")
        arxiv_id_url == safe_get_element(entry, "atom:id")
        summary == safe_get_element(entry, "atom:summary")
        published_date_str == safe_get_element(entry, "atom:published")
        doi == safe_get_element(entry, "arxiv:doi")
        arxiv_id_match == ArxivIdMatch(arxiv_id_url.value)
        arxiv_id == IF arxiv_id_match # <<>> THEN arxiv_id_match ELSE <<"u", "n", "k", "n", "o", "w", "n">>
        dates == DateFields(published_date_str.value)
    IN  IF summary.raised # "none"
        THEN [raised |-> summary.raised, data |-> EmptyData]
        ELSE IF \E a \in Range(entry.authors) : ~HasName(a)
        THEN [raised |-> "AttributeError", data |-> EmptyData]
        ELSE [raised |-> "none",
              data |-> [title |-> title.value,
                        summary |-> summary.value,
                        doi |-> doi.value,
                        arxiv_id |-> arxiv_id,
                        arxiv_url |-> <<"h", "t", "t", "p", "s", ":", "/", "/", "a", "r", "x", "i", "v", ".", "o", "r", "g", "/", "a", "b", "s", "/">> \o arxiv_id,
                        authors |-> MapSeq(LAMBDA a : Strip(a.text), entry.authors),
                        year |-> dates.year,
                        submission_date |-> dates.submission_date,
                        ris_date |-> dates.ris_date,
                        primary_category |-> PrimaryCategory(entry.primary_category),
                        enw_date_8 |-> dates.enw_date_8]]

(***************************************************************************)
(* The renderers.  A block is the text the renderer returns.               *)
(***************************************************************************)
LowerChar(c) ==
    IF c \in Range(UpperLetters)
    THEN LowerLetters[CHOOSE j \in DOMAIN UpperLetters : UpperLetters[j] = c]
    ELSE c

IsAlnum(c) == c \in Range(LowerLetters) \cup Range(UpperLetters) \cup Range(Digits)

\* \w of the regular expressions, for the characters modelled
IsWordChar(c) == IsAlnum(c) \/ c = "_"

\* the concatenation of the texts of a list
RECURSIVE Concat(_)
Concat(list) == IF list = <<>> THEN <<>> ELSE Head(list) \o Concat(Tail(list))

\* the maximal runs of word characters, in order
RECURSIVE WordRuns(_)
WordRuns(s) ==
    LET Start[p \in 0..Len(s)] ==
            IF p = Len(s) \/ IsWordChar(s[p + 1]) THEN p ELSE Start[p + 1]
        t == SubSeq(s, Start[0] + 1, Len(s))
        End[p \in 0..Len(t)] ==
            IF p = Len(t) \/ ~IsWordChar(t[p + 1]) THEN p ELSE End[p + 1]
    IN  IF t = <<>> THEN <<>>
        ELSE <<SubSeq(t, 1, End[0])>> \o WordRuns(SubSeq(t, End[0] + 1, Len(t)))

\* re.findall(r'\b[a-zA-Z0-9]+\b', title): the runs of word characters that
\* hold letters and digits only
FindWords(title) == SelectSeq(WordRuns(title), LAMBDA w : \A j \in DOMAIN w : IsAlnum(w[j]))

generate_bibtex_key(title, year) ==
    LET words == FindWords(title)
        key_parts == IF words # <<>> THEN SubSeq(words, 1, Min(2, Len(words)))
                     ELSE <<<<"a", "r", "x", "i", "v">>>>
        key == MapSeq(LowerChar, Concat(key_parts)) \o Format(year)
    IN  SubSeq(key, 1, Min(25, Len(key)))

\* 'Lastname, Firstnames' for a name of several words, the name itself otherwise
BibtexAuthor(author_name) ==
    LET name_parts == SplitWords(author_name)
    IN  IF Len(name_parts) > 1
        THEN name_parts[Len(name_parts)] \o <<",", " ">>
               \o Join(SubSeq(name_parts, 1, Len(name_parts) - 1), " ")
        ELSE author_name

\* ' and '.join(list)
RECURSIVE JoinAnd(_)
JoinAnd(list) ==
    IF list = <<>> THEN <<>>
    ELSE IF Len(list) = 1 THEN list[1]
    ELSE list[1] \o <<" ", "a", "n", "d", " ">> \o JoinAnd(Tail(list))

format_authors_for_bibtex(authors_list) == JoinAnd(MapSeq(BibtexAuthor, authors_list))

\* summary.replace('{', '\\{').replace('}', '\\}')
EscapeBraces(summary) ==
    Concat(MapSeq(LAMBDA c : IF c \in {"{", "}"} THEN <<"\\", c>> ELSE <<c>>, summary))

format_to_bibtex(data) ==
    LET bibkey == generate_bibtex_key(data.title, data.year)
        bibtex_body ==
            <<"\n", "t", "i", "t", "l", "e", " ", "=", " ", "{", "{">> \o data.title \o <<"}", "}", ",">>
            \o <<"\n", "a", "u", "t", "h", "o", "r", " ", "=", " ", "{">> \o format_authors_for_bibtex(data.authors) \o <<"}", ",">>
            \o <<"\n", "j", "o", "u", "r", "n", "a", "l", " ", "=", " ", "{", "a", "r", "X", "i", "v", "}", ",">>
            \o <<"\n", "a", "r", "c", "h", "i", "v", "e", "P", "r", "e", "f", "i", "x", " ", "=", " ", "{", "a", "r", "X", "i", "v", "}", ",">>
            \o <<"\n", "e", "p", "r", "i", "n", "t", " ", "=", " ", "{">> \o data.arxiv_id \o <<"}", ",">>
            \o (IF Truthy(data.primary_category)
                THEN <<"\n", " ", " ", "p", "r", "i", "m", "a", "r", "y", "C", "l", "a", "s", "s", " ", "=", " ", "{">> \o data.primary_category \o <<"}", ",">>
                ELSE <<>>)
            \o (IF Truthy(data.doi) THEN <<"\n", " ", " ", "d", "o", "i", " ", "=", " ", "{">> \o data.doi \o <<"}", ",">> ELSE <<>>)
            \o <<"\n", "y", "e", "a", "r", " ", "=", " ", "{">> \o data.year \o <<"}", ",">>
            \o <<"\n", "a", "b", "s", "t", "r", "a", "c", "t", " ", "=", " ", "{", "{">> \o EscapeBraces(data.summary) \o <<"}", "}", "\n">>
    IN  Strip(<<"\n", "@", "a", "r", "t", "i", "c", "l", "e", "{">> \o bibkey \o <<",">> \o bibtex_body \o <<"\n", "}", "\n">>)

format_to_ris(data) ==
    Join(<<<<"T", "Y", " ", " ", "-", " ", "J", "O", "U", "R">>,
           <<"T", "1", " ", " ", "-", " ">> \o data.title>>
         \o MapSeq(LAMBDA author_name : <<"A", "U", " ", " ", "-", " ">> \o author_name, data.authors)
         \o <<<<"A", "B", " ", " ", "-", " ">> \o data.summary>>
         \o (IF Truthy(data.year) THEN <<<<"P", "Y", " ", " ", "-", " ">> \o data.year>> ELSE <<>>)
         \o (IF Truthy(data.submission_date)
             THEN <<<<"D", "A", " ", " ", "-", " ">> \o data.submission_date>> ELSE <<>>)
         \o (IF Truthy(data.doi) THEN <<<<"D", "O", " ", " ", "-", " ">> \o data.doi>> ELSE <<>>)
         \o <<<<"U", "R", " ", " ", "-", " ">> \o data.arxiv_url,
              <<"J", "O", " ", " ", "-", " ", "a", "r", "X", "i", "v">>,
              <<"P", "B", " ", " ", "-", " ", "a", "r", "X", "i", "v">>>>
         \o (IF Truthy(data.primary_category)
             THEN <<<<"K", "W", " ", " ", "-", " ">> \o data.primary_category>> ELSE <<>>)
         \o <<<<"E", "P", " ", " ", "-", " ">> \o data.arxiv_id,
              <<"E", "R", " ", " ", "-", " ">>>>,
         "\n")

\* the lines of format_to_enw; the keywords line formats the category as it is
EnwLines(data) ==
    <<<<"%", "0", " ", "J", "o", "u", "r", "n", "a", "l", " ", "A", "r", "t", "i", "c", "l", "e">>,
      <<"%", "T", " ">> \o data.title>>
    \o MapSeq(LAMBDA author_name : <<"%", "A", " ">> \o author_name, data.authors)
    \o (IF Truthy(data.year) THEN <<<<"%", "Y", " ">> \o data.year>> ELSE <<>>)
    \o (IF Truthy(data.enw_date_8) THEN <<<<"%", "8", " ">> \o data.enw_date_8>> ELSE <<>>)
    \o <<<<"%", "J", " ", "a", "r", "X", "i", "v">>,
         <<"%", "K", " ", "a", "r", "X", "i", "v", ";", " ">> \o Format(data.primary_category)>>
    \o (IF Truthy(data.doi) THEN <<<<"%", "R", " ">> \o data.doi>> ELSE <<>>)
    \o <<<<"%", "Z", " ", "a", "r", "X", "i", "v", ":">> \o data.arxiv_id,
         <<"%", "U", " ">> \o data.arxiv_url,
         <<"%", "X", " ">> \o data.summary>>

format_to_enw(data) == Join(EnwLines(data), "\n")

\* FORMAT_MAP[output_format]'s formatter applied to a record
Formatter(format, data) ==
    CASE format = 1 -> format_to_ris(data)
      [] format = 2 -> format_to_bibtex(data)
      [] format = 3 -> format_to_enw(data)

\* separator.join(formatted_entries) with separator '\n\n'
RECURSIVE JoinBlocks(_)
JoinBlocks(blocks) ==
    IF blocks = <<>> THEN <<>>
    ELSE IF Len(blocks) = 1 THEN blocks[1]
    ELSE blocks[1] \o <<"\n", "\n">> \o JoinBlocks(Tail(blocks))

(***************************************************************************)
(* The export: run_batch_export from its call to its return.  The response *)
(* of the catalog is an input: a document that is not well-formed, or a    *)
(* feed of entries.                                                        *)
(***************************************************************************)
MaxEntries == 2

\* published texts strptime accepts (after the strip of safe_get_element):
\* the upstream form, a leap day, surrounding whitespace, and the unpadded
\* lower-case form strptime also takes
ParsingStamps ==
    {<<"2", "0", "2", "3", "-", "0", "1", "-", "0", "5", "T", "1", "2", ":", "3", "0", ":", "0", "0", "Z">>, <<"2", "0", "2", "4", "-", "0", "2", "-", "2", "9", "T", "0", "0", ":", "0", "0", ":", "0", "0", "Z">>, <<" ", "2", "0", "2", "3", "-", "1", "1", "-", "3", "0", "T", "2", "3", ":", "5", "9", ":", "5", "9", "Z", "\n">>,
     <<"2", "0", "2", "3", "-", "1", "-", "5", "t", "1", ":", "2", ":", "3", "z">>}

\* published texts strptime refuses with ValueError
FailingStamps ==
    {<<"2", "0", "2", "3", "-", "0", "1", "-", "0", "5">>, <<"2", "0", "2", "3", "-", "0", "2", "-", "2", "9", "T", "0", "0", ":", "0", "0", ":", "0", "0", "Z">>, <<"2", "0", "2", "3", "-", "1", "3", "-", "0", "1", "T", "0", "0", ":", "0", "0", ":", "0", "0", "Z">>,
     <<"2", "0", "2", "3", "-", "0", "1", "-", "0", "5", "T", "1", "2", ":", "3", "0", ":", "6", "0", "Z">>, <<"0", "0", "0", "0", "-", "0", "1", "-", "0", "1", "T", "0", "0", ":", "0", "0", ":", "0", "0", "Z">>, <<"2", "0", "2", "3", "-", "0", "1", "-", "0", "5", "T", "1", "2", ":", "3", "0", ":", "0", "0">>,
     <<"2", "0", "2", "3", "-", "0", "1", "-", "0", "5", "T", "2", "4", ":", "0", "0", ":", "0", "0", "Z">>, <<"5", " ", "J", "a", "n", " ", "2", "0", "2", "3">>}

Category(term) == [present |-> TRUE, term |-> <<term>>]

CategoryWithoutTerm == [present |-> TRUE, term |-> <<>>]

NoCategory == [present |-> FALSE, term |-> <<>>]

BaseEntry ==
    [title |-> Element(<<"D", "e", "e", "p", " ", "N", "e", "t", "s", ":", " ", "a", " ", "2", "n", "d", " ", "l", "o", "o", "k">>),
     id |-> Element(<<"h", "t", "t", "p", ":", "/", "/", "a", "r", "x", "i", "v", ".", "o", "r", "g", "/", "a", "b", "s", "/", "2", "3", "0", "1", ".", "0", "0", "0", "0", "1", "v", "2">>),
     summary |-> Element(<<" ", " ", "W", "e", " ", "s", "t", "u", "d", "y", " ", "$", "x", "$", "\n", " ", " ", "i", "n", " ", "{", "d", "e", "p", "t", "h", "}", ".", " ">>),
     published |-> Element(<<"2", "0", "2", "3", "-", "0", "1", "-", "0", "5", "T", "1", "2", ":", "3", "0", ":", "0", "0", "Z">>),
     doi |-> NoElement,
     authors |-> <<Element(<<"A", "d", "a", " ", "L", "o", "v", "e", "l", "a", "c", "e">>)>>,
     primary_category |-> Category(<<"c", "s", ".", "L", "G">>)]

TitleSamples ==
    {NoElement, Element(None), Element(<<"E", "r", "r", "o", "r">>), Element(<<" ", "E", "r", "r", "o", "r", ":", " ", "i", "n", "c", "o", "r", "r", "e", "c", "t", " ", "i", "d", " ", "f", "o", "r", "m", "a", "t", " ", "\n">>),
     Element(<<"e", "r", "r", "o", "r", "_", "f", "r", "e", "e">>)}

IdSamples ==
    {NoElement, Element(None), Element(<<"h", "t", "t", "p", ":", "/", "/", "a", "r", "x", "i", "v", ".", "o", "r", "g", "/", "a", "b", "s", "/", "2", "3", "0", "1", ".", "0", "0", "0", "0", "1">>),
     Element(<<"h", "t", "t", "p", ":", "/", "/", "a", "r", "x", "i", "v", ".", "o", "r", "g", "/", "a", "b", "s", "/", "h", "e", "p", "-", "t", "h", "/", "9", "9", "0", "1", "0", "0", "1", "v", "1">>)}

SummarySamples == {NoElement, Element(None)}

PublishedSamples ==
    {NoElement, Element(None)} \cup {Element(s) : s \in ParsingStamps \cup FailingStamps}

DoiSamples == {Element(None), Element(<<"1", "0", ".", "1", "0", "0", "0", "/", "x", "1">>)}

AuthorsSamples ==
    {<<>>, <<Element(<<" ", "A", "d", "a", " ", "B", ".", " ", "L", "o", "v", "e", "l", "a", "c", "e", " ">>), Element(<<"P", "l", "a", "t", "o">>)>>, <<NoElement>>,
     <<Element(None)>>}

CategorySamples == {NoCategory, CategoryWithoutTerm}

\* the base entry and its variants in one field
Entries ==
    {BaseEntry}
    \cup {[BaseEntry EXCEPT !.title = v] : v \in TitleSamples}
    \cup {[BaseEntry EXCEPT !.id = v] : v \in IdSamples}
    \cup {[BaseEntry EXCEPT !.summary = v] : v \in SummarySamples}
    \cup {[BaseEntry EXCEPT !.published = v] : v \in PublishedSamples}
    \cup {[BaseEntry EXCEPT !.doi = v] : v \in DoiSamples}
    \cup {[BaseEntry EXCEPT !.authors = v] : v \in AuthorsSamples}
    \cup {[BaseEntry EXCEPT !.primary_category = v] : v \in CategorySamples}

\* the entries that feeds of several entries are made of
CoreEntries ==
    {BaseEntry,
     [BaseEntry EXCEPT !.title = NoElement],
     [BaseEntry EXCEPT !.title = Element(<<"E", "r", "r", "o", "r">>)],
     [BaseEntry EXCEPT !.summary = Element(None)],
     [BaseEntry EXCEPT !.published = Element(<<"2", "0", "2", "3", "-", "0", "2", "-", "2", "9", "T", "0", "0", ":", "0", "0", ":", "0", "0", "Z">>),
                       !.primary_category = CategoryWithoutTerm]}

RECURSIVE FeedsOfLen(_)
FeedsOfLen(n) ==
    IF n = 0 THEN {<<>>}
    ELSE {Append(f, e) : f \in FeedsOfLen(n - 1), e \in CoreEntries}

Feed(entries) == [received |-> TRUE, wellformed |-> TRUE, entries |-> entries]

\* a body ET.fromstring refuses with ParseError
Malformed == [received |-> TRUE, wellformed |-> FALSE, entries |-> <<>>]

Responses ==
    {Malformed}
    \cup {Feed(<<e>>) : e \in Entries}
    \cup UNION {{Feed(f) : f \in FeedsOfLen(n)} : n \in 0..MaxEntries}

InitExport ==
    /\ pc = "export_start"
    /\ search_type = 1
    /\ url = FieldsOf(K_query, << <<"2">> >>) \o FieldsOf(K_searchtype, <<T_all>>)
    /\ query_params = <<>>
    /\ i = 0
    /\ complex_query_parts = <<>>
    /\ api_query = parse_simple_search_url(url).api_query
    /\ error = "none"
    /\ requests = 1
    /\ total_results = MaxEntries
    /\ output_format \in 1..3
    /\ max_results \in 1..MaxEntries
    /\ response = NoResponse
    /\ k = 0
    /\ formatted_entries = <<>>
    /\ records = <<>>
    /\ output_content = <<>>
    /\ writes = 0
    /\ message = <<>>
    /\ log = <<>>

\* a fetch that is sent again after it failed: a mutant of FetchFail
FetchFailRetries ==
    /\ pc = "export_start"
    /\ requests <= MaxEntries + 1
    /\ requests' = requests + 1
    /\ log' = log \o <<"fetch", "fetch_failed">>
    /\ UNCHANGED <<pc, error, response, k, formatted_entries, records, output_content, writes, message>>
    /\ UNCHANGED urlVars
    /\ UNCHANGED promptVars

\* requests.get or raise_for_status raises RequestException: reported, return
FetchFail ==
    /\ pc = "export_start"
    /\ requests' = requests + 1
    /\ log' = log \o <<"fetch", "fetch_failed">>
    /\ pc' = "exit"
    /\ UNCHANGED <<error, response, k, formatted_entries, records, output_content, writes, message>>
    /\ UNCHANGED urlVars
    /\ UNCHANGED promptVars

\* requests.get returns a response with a success status
FetchOK ==
    /\ pc = "export_start"
    /\ requests' = requests + 1
    /\ \E r \in Responses : response' = r
    /\ log' = log \o <<"fetch", "fetch_ok">>
    /\ pc' = "parse"
    /\ UNCHANGED <<error, k, formatted_entries, records, output_content, writes, message>>
    /\ UNCHANGED urlVars
    /\ UNCHANGED promptVars

\* root.find('atom:entry/atom:title', NS): the title of the first entry
\* that has one
ErrorTag(entries) ==
    IF \E j \in DOMAIN entries : entries[j].title.present
    THEN entries[CHOOSE j \in DOMAIN entries :
                    /\ entries[j].title.present
                    /\ \A h \in 1..(j - 1) : ~entries[h].title.present].title
    ELSE NoElement

\* the outcome of parse_arxiv_xml up to its loop: ParseError of fromstring,
\* TypeError of `"Error" in None`, the Exception raised on an error title
\* (with the stripped title it carries), or none
ErrorCheck(r) ==
    LET error_tag == ErrorTag(r.entries)
    IN  IF ~r.wellformed THEN [raised |-> "ParseError", message |-> <<>>]
        ELSE IF ~error_tag.present THEN [raised |-> "none", message |-> <<>>]
        ELSE IF error_tag.text = None THEN [raised |-> "TypeError", message |-> <<>>]
        ELSE IF Contains(<<"E", "r", "r", "o", "r">>, error_tag.text)
        THEN [raised |-> "Exception", message |-> Strip(error_tag.text)]
        ELSE [raised |-> "none", message |-> <<>>]

\* parse_arxiv_xml is entered: fromstring and the error check.  What they
\* raise is caught in run_batch_export, reported, and the run returns.
ParseStart ==
    /\ pc = "parse"
    /\ LET check == ErrorCheck(response)
       IN  IF check.raised = "none"
           THEN /\ pc' = "entries"
                /\ k' = 1
                /\ log' = Append(log, "check_passed")
                /\ UNCHANGED <<error, message>>
           ELSE /\ pc' = "exit"
                /\ error' = check.raised
                /\ message' = check.message
                /\ log' = log \o <<"check_raised", "parse_failed">>
                /\ UNCHANGED k
    /\ UNCHANGED <<requests, response, formatted_entries, records, output_content, writes>>
    /\ UNCHANGED urlVars
    /\ UNCHANGED promptVars

\* one pass of the loop: extract the record, render it, append the block;
\* an exception of the extraction leaves parse_arxiv_xml and ends the run
ExtractEntry ==
    /\ pc = "entries"
    /\ k <= Len(response.entries)
    /\ LET extracted == extract_paper_data(response.entries[k])
       IN  IF extracted.raised = "none"
           THEN /\ records' = Append(records, extracted.data)
                /\ formatted_entries' =
                       Append(formatted_entries, Formatter(output_format, extracted.data))
                /\ k' = k + 1
                /\ UNCHANGED <<pc, error, log>>
           ELSE /\ pc' = "exit"
                /\ error' = extracted.raised
                /\ log' = log \o <<"extract_raised", "parse_failed">>
                /\ UNCHANGED <<records, formatted_entries, k>>
    /\ UNCHANGED <<requests, response, output_content, writes, message>>
    /\ UNCHANGED urlVars
    /\ UNCHANGED promptVars

\* the loop is over: parse_arxiv_xml returns the joined blocks
ParseReturn ==
    /\ pc = "entries"
    /\ k > Len(response.entries)
    /\ output_content' = JoinBlocks(formatted_entries)
    /\ log' = Append(log, "parsed")
    /\ pc' = "check_empty"
    /\ UNCHANGED <<error, requests, response, k, formatted_entries, records, writes, message>>
    /\ UNCHANGED urlVars
    /\ UNCHANGED promptVars

\* `if not output_content`: reported, return
EmptyOutput ==
    /\ pc = "check_empty"
    /\ output_content = <<>>
    /\ log' = Append(log, "empty")
    /\ pc' = "exit"
    /\ UNCHANGED <<error, requests, response, k, formatted_entries, records, output_content, writes, message>>
    /\ UNCHANGED urlVars
    /\ UNCHANGED promptVars

\* the file is opened and written
WriteFile ==
    /\ pc = "check_empty"
    /\ output_content # <<>>
    /\ writes' = writes + 1
    /\ log' = Append(log, "written")
    /\ pc' = "exit"
    /\ UNCHANGED <<error, requests, response, k, formatted_entries, records, output_content, message>>
    /\ UNCHANGED urlVars
    /\ UNCHANGED promptVars

\* open raises IOError: reported, no file
WriteFail ==
    /\ pc = "check_empty"
    /\ output_content # <<>>
    /\ error' = "IOError"
    /\ log' = Append(log, "write_failed")
    /\ pc' = "exit"
    /\ UNCHANGED <<requests, response, k, formatted_entries, records, output_content, writes, message>>
    /\ UNCHANGED urlVars
    /\ UNCHANGED promptVars

NextExport ==
    \/ FetchFail
    \/ FetchOK
    \/ ParseStart
    \/ ExtractEntry
    \/ ParseReturn
    \/ EmptyOutput
    \/ WriteFile
    \/ WriteFail

SpecExport == InitExport /\ [][NextExport]_vars

(***************************************************************************)
(* Properties of the export                                                *)
(***************************************************************************)
Logged(event) == \E j \in DOMAIN log : log[j] = event

CountOf(event) == Cardinality({j \in DOMAIN log : log[j] = event})

\* the error check of parse_arxiv_xml has run on a well-formed response
Checked == response.received /\ response.wellformed /\ pc \notin {"export_start", "parse"}

FirstTitle ==
    IF response.entries = <<>> THEN NoElement ELSE response.entries[1].title

FirstTitleHasError ==
    FirstTitle.present /\ FirstTitle.text # None /\ Contains(<<"E", "r", "r", "o", "r">>, FirstTitle.text)

\* C4: the error check of parse_arxiv_xml raises the upstream error, with the
\* first entry's title as its message, exactly when the first entry's title
\* contains "Error", and then nothing is extracted, rendered or written; for
\* any other first entry (title absent or empty included) the check raises
\* nothing.
C4_ErrorCheckOnFirstTitle ==
    Checked =>
        /\ FirstTitleHasError =>
              /\ Logged("check_raised")
              /\ error = "Exception"
              /\ message = Strip(FirstTitle.text)
              /\ records = <<>>
              /\ formatted_entries = <<>>
              /\ writes = 0
        /\ ~FirstTitleHasError => ~Logged("check_raised")

Xpaths == {"atom:title", "atom:summary", "atom:id", "atom:published", "arxiv:doi"}

MissingOrEmpty(element) == ~element.present \/ element.text = None

\* C5: for the five optional fields a lookup of safe_get_element gives ''
\* and raises nothing when the element is absent or has no text, so no
\* extraction fails on account of one of them: an extraction that raised
\* met an author without a name.
C5_OptionalFieldsNeverFail ==
    (pc = "exit" /\ Logged("extract_raised")) =>
        /\ \A x \in Xpaths :
              MissingOrEmpty(Find(response.entries[k], x)) =>
                  safe_get_element(response.entries[k], x) = [raised |-> "none", value |-> <<>>]
        /\ \E a \in Range(response.entries[k].authors) : ~HasName(a)

DateSet(r) == {r.year, r.submission_date, r.ris_date, r.enw_date_8}

\* C6: in every record the four date fields are all non-empty when the
\* entry's published text parses and all empty when it is absent or does
\* not parse; they are never partly set.
C6_DateFieldsAllOrNone ==
    \A j \in DOMAIN records :
        LET published == response.entries[j].published
        IN  IF published.present /\ published.text # None /\ published.text \in ParsingStamps
            THEN <<>> \notin DateSet(records[j])
            ELSE DateSet(records[j]) = {<<>>}

\* a feed whose first entry has a parsing timestamp and whose second has one
\* that fails has been extracted
C6_Witness ==
    /\ Len(records) = 2
    /\ records[1].year = <<"2", "0", "2", "3">>
    /\ records[1].submission_date = <<"2", "0", "2", "3", "/", "0", "1", "/", "0", "5", "/">>
    /\ records[1].ris_date = <<"2", "0", "2", "3", "/", "0", "1", "/", "0", "1", "/">>
    /\ records[1].enw_date_8 = <<"J", "a", "n", "u", "a", "r", "y", " ", "0", "5", ",", " ", "2", "0", "2", "3">>
    /\ response.entries[2].published.text \in FailingStamps
    /\ DateSet(records[2]) = {<<>>}

C7_State ==
    /\ CountOf("fetch") <= 1
    /\ requests <= 2
    /\ writes <= 1
    /\ writes = 1 =>
          /\ Logged("fetch_ok")
          /\ Logged("parsed")
          /\ output_content # <<>>
    /\ (Logged("fetch_failed") \/ Logged("parse_failed") \/ Logged("empty")) =>
          /\ writes = 0
          /\ pc = "exit"
          /\ output_content = <<>>
    /\ Logged("fetch_failed") => (response = NoResponse /\ records = <<>> /\ Len(log) = 2)
    /\ Logged("parse_failed") => log[Len(log)] = "parse_failed"
    /\ Logged("empty") => log[Len(log)] = "empty"

\* a step is never taken after the run has ended, and a file is written only
\* from the state in which the content was found non-empty
C7_Step ==
    /\ pc # "exit"
    /\ writes' # writes => (pc = "check_empty" /\ output_content # <<>> /\ pc' = "exit")

\* C7: a run sends at most one bulk fetch and never repeats it; a failed
\* fetch, a parse or extraction error and an empty document each end the run
\* with no file and no later step; the file is written at most once, only
\* after fetch and parse succeeded and the document is non-empty.
C7_OneFetchNoRetryOneWrite == []C7_State /\ [][C7_Step]_vars

\* a run that wrote its file after two records, and only one request after
\* the probe
C7_Witness ==
    /\ pc = "exit"
    /\ writes = 1
    /\ Len(records) = 2
    /\ requests = 2
    /\ CountOf("fetch") = 1

CategoryText(tag) == IF tag.present /\ tag.term # <<>> THEN tag.term[1] ELSE <<>>

\* C10: the record's primary_category is a text, the attribute's value when
\* the sub-node carries it and '' otherwise, and the ENW keywords line is
\* "%K arXiv; " followed by that text.
C10_PrimaryCategoryIsText ==
    \A j \in DOMAIN records :
        LET category == CategoryText(response.entries[j].primary_category)
        IN  /\ records[j].primary_category = category
            /\ output_format = 3 =>
                  Contains(<<"\n">> \o <<"%", "K", " ", "a", "r", "X", "i", "v", ";", " ">> \o category \o <<"\n">>,
                           formatted_entries[j])

=============================================================================
